---- MODULE Spec2Model ----
(***************************************************************************)
(* Book-safe: the sync blocker (src/sync.rs, src/sync/cache.rs,            *)
(* src/sync/route.rs), built for target_arch = "arm" (the reMarkable).     *)
(*                                                                         *)
(* Time is counted in units of four weeks (60*60*24*7*4 seconds), so that  *)
(* EXPIRATION, 60*60*24*7*4*2 seconds, is 2.  The monotonic clock of the   *)
(* DNS wait is counted in seconds.  Addresses are the integers 1..NIps,    *)
(* ordered as IpAddr is.                                                   *)
(***************************************************************************)
EXTENDS Integers, Sequences, FiniteSets, TLC

\* ---------------------------------------------------------------- bounds
NIps == 3          \* distinct addresses the sync hosts can resolve to
NHosts == 2        \* hostnames looked up (SYNC_BACKENDS has nine)
MaxTime == 3       \* the wall clock runs over 0..MaxTime
MaxCalls == 6      \* route invocations followed within one run
RoundSecs == 16    \* seconds one round of lookups and the sleep behind it take
NRecs == 3         \* .metadata records in the data directory
MaxPath == 3       \* the longest path asked of node_for, in characters
MaxSeg == 2        \* the longest path given to --lock, in characters
MaxList == 3       \* the most paths given to --lock
MaxHour == 2       \* the hours of the day run over 0..MaxHour
MaxMinute == 1     \* the minutes of the hour run over 0..MaxMinute
NDocs == 3         \* the documents on the tablet

\* ------------------------------------------------------ program constants
EXPIRATION == 2
TIMEOUT == 30
MaxAttempt == 4

IPs == 1..NIps
SYNC_BACKENDS == 1..NHosts

VARIABLES
    now,        \* SystemTime::now(), in units of four weeks
    net,        \* "up" | "down": whether the resolver can be reached
    file,       \* content of routes.json, a sequence of tokens
    rtable,     \* the kernel routing table: destinations with a reject route
    pc,         \* position of the running operation
    op,         \* "none" | "block" | "unblock"
    result,     \* what the last run returned
    cache,      \* sync_routes: the Cached loaded from the file
    elapsed_s,  \* sync_routes: start.elapsed(), in seconds
    resolved,   \* sync_routes: what the resolve loop broke with
    round,      \* sync_routes: the lookups and result of the last resolve_sync_routes
    targets,    \* to_block / to_unblock.blocked_ips()
    idx,        \* position of the for loop in targets
    routes,     \* the table read once before the for loop
    attempt,    \* the attempt counter of the run
    updated,    \* sync_routes: what cache.update(resolved) returned
    calls,      \* history: route invocations of this run
    streak,     \* history: invocations in a row, up to the last, that changed nothing
    took,       \* history: an invocation of this run changed the table
    last,       \* history: the last route invocation of this run
    partial,    \* history: a block run was interrupted with some, not all, targets installed
    recs,       \* directory::map: the .metadata records of DIR, by uuid
    todo,       \* directory::map: the records read_dir has not yielded yet
    tree,       \* the Tree
    index,      \* directory::map: the HashMap from name to uuid
    subroot,    \* descendant_files: its argument
    found,      \* descendant_files: what it returned
    asked,      \* node_for: its argument, a string
    answer,     \* node_for: what it returned
    forbidden,  \* lock: the paths to lock that are still to resolve
    roots,      \* lock: the nodes resolved so far
    report,     \* lock / check_folders: the paths named in the error
    args_lock,  \* without_overlapping: its argument
    kept,       \* without_overlapping: what it returned
    clock,      \* run: now, start and end
    locking,    \* run: what should_lock returned
    changed,    \* history: the addresses whose route this run has changed
    ui,         \* xochitl, the ui of the tablet: "active" or "inactive"
    safe,       \* the documents in locked_books
    to_lock,    \* lock: the documents still to move
    sync_ret,   \* history: what sync::block returned in this run
    stopped,    \* history: this run has stopped the ui
    hid,        \* history: the documents this run has moved to locked_books
    at_unblock, \* history: the documents in locked_books when sync::unblock was called
    timer,      \* install: the OnCalendar entries of the timer unit
    args        \* install: --start and --end, each the two numbers of HH:MM

\* the variables of lock, unlock and install in main.rs
rvars == <<ui, safe, to_lock, sync_ret, stopped, hid, at_unblock, timer, args>>

\* the variables of main.rs and util.rs
uvars == <<asked, answer, forbidden, roots, report, args_lock, kept, clock, locking>>

\* the variables of directory.rs
tvars == <<recs, todo, tree, index, subroot, found>>

vars == <<now, net, file, rtable, pc, op, result, cache, elapsed_s, resolved, round, updated,
          targets, idx, routes, attempt, calls, streak, took, last, partial, tvars, uvars,
          changed, rvars>>

\* ------------------------------------------------------------- sequences
Front(s) == SubSeq(s, 1, Len(s) - 1)
Last(s) == s[Len(s)]
Range(s) == {s[i] : i \in DOMAIN s}
Reverse(s) == [i \in 1..Len(s) |-> s[Len(s) + 1 - i]]

\* ------------------------------------------------------ cache.rs: entries
Entry(ip, t) == [ip |-> ip, last_updated |-> t]

\* SystemTime::elapsed: Err when the time stamp lies in the future
elapsed(t, nw) == IF nw >= t THEN [ok |-> TRUE, age |-> nw - t] ELSE [ok |-> FALSE, age |-> 0]

n_recent(list, nw) ==
    Cardinality({i \in DOMAIN list :
        (IF elapsed(list[i].last_updated, nw).ok
         THEN elapsed(list[i].last_updated, nw).age ELSE 0) < EXPIRATION})

blocked_ips(list) == [i \in DOMAIN list |-> list[i].ip]

into_ips(list) == [i \in DOMAIN list |-> list[i].ip]

\* list.sort_unstable_by_key(|e| e.last_updated): entries of equal time stamp
\* may come out in any order; the later stable sort by ip makes the final
\* list the same for each, so the stable outcome is taken.
RECURSIVE InsertByTime(_, _)
InsertByTime(sorted, e) ==
    IF sorted = <<>> THEN <<e>>
    ELSE IF Last(sorted).last_updated <= e.last_updated THEN Append(sorted, e)
    ELSE Append(InsertByTime(Front(sorted), e), Last(sorted))

RECURSIVE SortByTime(_)
SortByTime(list) ==
    IF list = <<>> THEN <<>> ELSE InsertByTime(SortByTime(Front(list)), Last(list))

\* list.sort_by_key(|e| e.ip): stable
RECURSIVE InsertByIp(_, _)
InsertByIp(sorted, e) ==
    IF sorted = <<>> THEN <<e>>
    ELSE IF Last(sorted).ip <= e.ip THEN Append(sorted, e)
    ELSE Append(InsertByIp(Front(sorted), e), Last(sorted))

RECURSIVE SortByIp(_)
SortByIp(list) ==
    IF list = <<>> THEN <<>> ELSE InsertByIp(SortByIp(Front(list)), Last(list))

\* list.dedup_by_key(|e| e.ip): of consecutive entries of one ip the first stays
RECURSIVE DedupByIp(_)
DedupByIp(list) ==
    IF Len(list) <= 1 THEN list
    ELSE LET r == DedupByIp(Front(list))
         IN IF Last(r).ip = Last(list).ip THEN r ELSE Append(r, Last(list))

dedup_keep_oldest(list) == DedupByIp(SortByIp(SortByTime(list)))

\* dedup_keep_newest

dedup_keep_newest(list) == DedupByIp(SortByIp(Reverse(SortByTime(list))))

Purge_from_expiration(list, nw) ==
    SelectSeq(list, LAMBDA e :
        ~(elapsed(e.last_updated, nw).ok /\ elapsed(e.last_updated, nw).age >= EXPIRATION))

\* the while loop of update: remove(i) when elapsed() is Ok(age) with age > EXPIRATION
Purge(list, nw) ==
    SelectSeq(list, LAMBDA e :
        ~(elapsed(e.last_updated, nw).ok /\ elapsed(e.last_updated, nw).age > EXPIRATION))

Extended(old, new, nw) == old \o [i \in DOMAIN new |-> Entry(new[i], nw)]

update_without_floor(old, new, nw) ==
    LET merged == dedup_keep_newest(Extended(old, new, nw))
    IN IF merged = <<>> THEN [some |-> FALSE, routes |-> <<>>]
       ELSE [some |-> TRUE, routes |-> Purge(merged, nw)]

\* Cached::update: [some |-> FALSE] is None
update(old, new, nw) ==
    LET merged == dedup_keep_newest(Extended(old, new, nw))
    IN IF merged = <<>> THEN [some |-> FALSE, routes |-> <<>>]
       ELSE IF n_recent(merged, nw) < 2 THEN [some |-> TRUE, routes |-> merged]
       ELSE [some |-> TRUE, routes |-> Purge(merged, nw)]

\* ------------------------------------------------- cache.rs: routes.json
\* The file is a sequence of tokens: "[", "]", "," and one token per entry
\* (serde_json::to_writer_pretty of a Vec<Entry>).  An entry's token stands
\* for its whole text; entries are taken to be of one width, so a list with
\* fewer entries is the shorter text.
Tok(k) == [k |-> k, ip |-> 0, last_updated |-> 0]
EntryTok(e) == [k |-> "e", ip |-> e.ip, last_updated |-> e.last_updated]

RECURSIVE Serialize_items(_)
Serialize_items(list) ==
    IF list = <<>> THEN <<>>
    ELSE IF Len(list) = 1 THEN <<EntryTok(list[1])>>
    ELSE Serialize_items(Front(list)) \o <<Tok(","), EntryTok(Last(list))>>

Serialize(list) == <<Tok("[")>> \o Serialize_items(list) \o <<Tok("]")>>

\* OpenOptions write(true).create(true), no truncate: the bytes written
\* replace the head of the file, what lay behind them stays
WriteOver(old, bytes) ==
    [i \in 1..(IF Len(old) > Len(bytes) THEN Len(old) ELSE Len(bytes)) |->
        IF i <= Len(bytes) THEN bytes[i] ELSE old[i]]

\* Routes::cache
cache_write(old, list) == WriteOver(old, Serialize(list))

\* serde_json::from_reader: one JSON array of entries, then end of input
Deserialize(bytes) ==
    LET n == Len(bytes)
        wellformed ==
            /\ n >= 2
            /\ bytes[1].k = "["
            /\ bytes[n].k = "]"
            /\ \/ n = 2
               \/ /\ n % 2 = 1
                  /\ \A i \in 2..(n - 1) :
                        IF i % 2 = 0 THEN bytes[i].k = "e" ELSE bytes[i].k = ","
    IN IF wellformed
       THEN [ok |-> TRUE,
             entries |-> [j \in 1..((n - 1) \div 2) |->
                            Entry(bytes[2 * j].ip, bytes[2 * j].last_updated)]]
       ELSE [ok |-> FALSE, entries |-> <<>>]

\* Cached::load: a file of length 0 is the empty cache
load(bytes) ==
    IF Len(bytes) = 0 THEN [ok |-> TRUE, entries |-> <<>>] ELSE Deserialize(bytes)

\* --------------------------------------------------- sync.rs: resolution
\* What one lookup_ip can give: the addresses of the host, a failure of kind
\* NoConnections, or a failure of another kind.  With the resolver out of
\* reach every lookup fails with NoConnections.
Lookup(k, ips) == [k |-> k, ips |-> ips]

LookupResults(n) ==
    IF n = "down" THEN {Lookup("noconn", {})}
    ELSE {Lookup("noconn", {}), Lookup("other", {})} \cup {Lookup("ok", {i}) : i \in IPs}

RECURSIVE SortedSeq(_)
SortedSeq(S) ==
    IF S = {} THEN <<>>
    ELSE LET m == CHOOSE x \in S : \A y \in S : x <= y
         IN <<m>> \o SortedSeq(S \ {m})

RECURSIVE InsertIp(_, _)
InsertIp(a, sorted) ==
    IF sorted = <<>> THEN <<a>>
    ELSE IF a <= sorted[1] THEN <<a>> \o sorted
    ELSE <<sorted[1]>> \o InsertIp(a, Tail(sorted))

\* res.sort_unstable()
RECURSIVE SortIps(_)
SortIps(list) == IF list = <<>> THEN <<>> ELSE InsertIp(list[1], SortIps(Tail(list)))

\* res.dedup(): consecutive equal addresses collapse to the first
RECURSIVE Dedup(_)
Dedup(list) ==
    IF Len(list) <= 1 THEN list
    ELSE IF list[1] = list[2] THEN Dedup(Tail(list))
    ELSE <<list[1]>> \o Dedup(Tail(list))

\* flat_map over the successful lookups, in the order of SYNC_BACKENDS
RECURSIVE FlatMap(_)
FlatMap(oks) == IF oks = <<>> THEN <<>> ELSE SortedSeq(oks[1].ips) \o FlatMap(Tail(oks))

resolve_first_failure_ends(out) ==
    LET n == IF \E h \in DOMAIN out : out[h].k # "ok"
             THEN (CHOOSE h \in DOMAIN out : out[h].k # "ok" /\ \A g \in 1..(h - 1) : out[g].k = "ok") - 1
             ELSE Len(out)
    IN [res |-> Dedup(SortIps(FlatMap(SubSeq(out, 1, n)))),
        err |-> SelectSeq(out, LAMBDA r : r.k # "ok")]

\* resolve_sync_routes: (res, err) for the lookups `out`, one per hostname
resolve_sync_routes(out) ==
    [res |-> Dedup(SortIps(FlatMap(SelectSeq(out, LAMBDA r : r.k = "ok")))),
     err |-> SelectSeq(out, LAMBDA r : r.k # "ok")]

conn_errs_when_all(err) ==
    IF \A i \in DOMAIN err : err[i].k = "noconn" THEN Len(err) ELSE 0

conn_errs(err) == Len(SelectSeq(err, LAMBDA r : r.k = "noconn"))

resolve_step_keeping(rs, e) ==
    IF conn_errs(rs.err) = 0 \/ e > TIMEOUT THEN [k |-> "break", resolved |-> rs.res]
    ELSE [k |-> "sleep", resolved |-> <<>>]

\* the body of the loop of sync_routes behind resolve_sync_routes, `e` seconds
\* after start: "break" with the addresses to merge, or "sleep"
resolve_step(rs, e) ==
    IF conn_errs(rs.err) = 0 THEN [k |-> "break", resolved |-> rs.res]
    ELSE IF e > TIMEOUT THEN [k |-> "break", resolved |-> <<>>]
    ELSE [k |-> "sleep", resolved |-> <<>>]

\* no resolve_sync_routes has returned in this run
NoRound == [out |-> <<>>, res |-> <<>>, err |-> <<>>, e |-> 0]


\* ------------------------------------------------------ route.rs: route
\* What the route program can do when asked to add a reject route for `a`:
\* not start; exit 0 having added it ("effect"); exit 0 having done nothing
\* ("noeffect", as seen directly after resume); exit non-zero with
\* "SIOCADDRT: File exists" when the route is there; exit non-zero otherwise.
AddOutcomes(a, tbl) ==
    {"start", "other", "noeffect"} \cup (IF a \in tbl THEN {"exists"} ELSE {"effect"})

\* ... and when asked to delete it ("SIOCDELRT: No such process" when absent)
DelOutcomes(a, tbl) ==
    {"start", "other", "noeffect"} \cup (IF a \in tbl THEN {"effect"} ELSE {"notfound"})

AddEffect_undone_on_error(a, tbl, o) ==
    IF o = "effect" THEN tbl \cup {a}
    ELSE IF o \in {"start", "other", "exists"} THEN {}
    ELSE tbl

AddEffect(a, tbl, o) == IF o = "effect" THEN tbl \cup {a} ELSE tbl

DelEffect(a, tbl, o) == IF o = "effect" THEN tbl \ {a} ELSE tbl

handle_any_error(o) ==
    CASE o \in {"effect", "noeffect"} -> "Ok"
      [] o = "exists" -> "Exists"
      [] o = "notfound" -> "NotFound"
      [] OTHER -> "Run"

\* route::block: what it returns when the program did `o`
route_block(o) == IF o = "start" THEN "Start" ELSE handle_any_error(o)

route_unblock_unverified(a, o, after, tok) ==
    IF o = "start" THEN "Start"
    ELSE IF handle_any_error(o) # "Ok" THEN handle_any_error(o)
    ELSE "Ok"

\* route::unblock: `after` is the table after the command, `tok` whether
\* table() could read it
route_unblock(a, o, after, tok) ==
    IF o = "start" THEN "Start"
    ELSE IF handle_any_error(o) # "Ok" THEN handle_any_error(o)
    ELSE IF ~tok THEN "Verifying"
    ELSE IF a \in after THEN "NoEffect"
    ELSE "Ok"

\* `route -n`: two header lines, then one line per route, the destination first
RouteLine(d) == [dest |-> d]

route_n(tbl) ==
    <<RouteLine(0), RouteLine(0)>> \o [i \in 1..Cardinality(tbl) |-> RouteLine(SortedSeq(tbl)[i])]

Skip(lines, n) == SubSeq(lines, n + 1, Len(lines))

route_table_skip3(tbl) == {Skip(route_n(tbl), 3)[i].dest : i \in DOMAIN Skip(route_n(tbl), 3)}

\* route::table: lines().skip(2), the first column of each, as a HashSet
route_table(tbl) == {Skip(route_n(tbl), 2)[i].dest : i \in DOMAIN Skip(route_n(tbl), 2)}

\* --------------------------------------------- sync.rs: block / unblock
block_skips_inverted(rts, a) == a \notin rts

\* `if routes.contains(addr) { continue; }`
block_skips(rts, a) == a \in rts

unblock_skips_inverted(rts, a) == a \in rts

\* `if !routes.contains(addr) { continue; }`
unblock_skips(rts, a) == a \notin rts

block_match_retrying(ret, att) ==
    CASE ret = "NoEffect" /\ att > MaxAttempt -> "timeout"
      [] ret = "Ok" -> "again"
      [] OTHER -> "retry"

\* the match of the loop in block
block_match(ret, att) ==
    CASE ret = "NoEffect" /\ att > MaxAttempt -> "timeout"
      [] ret = "NoEffect" -> "retry"
      [] ret = "Ok" -> "again"
      [] OTHER -> "fail"

unblock_match_leaving(ret, att) ==
    CASE ret = "NoEffect" /\ att > MaxAttempt -> "timeout"
      [] ret = "NoEffect" -> "retry"
      [] ret = "Ok" -> "break"
      [] OTHER -> "fail"

\* the match of the loop in unblock
unblock_match(ret, att) ==
    CASE ret = "NoEffect" /\ att > MaxAttempt -> "timeout"
      [] ret = "NoEffect" -> "retry"
      [] ret = "Ok" -> "again"
      [] OTHER -> "fail"

Idle == pc = "idle"

NoCall == [f |-> "none", a |-> 0, had |-> FALSE, out |-> "none", ret |-> "none"]

Called(f, a, had, o, ret) == [f |-> f, a |-> a, had |-> had, out |-> o, ret |-> ret]

None == [some |-> FALSE, routes |-> <<>>]

\* ---------------------------------------------------------------- state
\* ------------------------------------------------- directory.rs: Tree
\* Uuids are integers: the two roots the Tree is made with, and one per
\* record.  Names are integers too.
Trash == -1
MainRoot == 0
RecUuids == 1..NRecs
Uuids == Trash..NRecs

TrashName == -1
RootName == 0
NoName == -2
NameOf(u) == 1 + (u % 2)

HoursPerDay == 24        \* Time::from_hms: an hour is below 24
MinutesPerHour == 60     \* Time::from_hms: a minute is below 60
\* extract_field gave None: the metadata has no such field
NoField == -3

\* is_folder of the metadata of a record whose type field is there
is_folder(r) == r.kind = "folder"

\* a record: is_folder(), parent(), name() of its metadata
Rec(kind, parent, nm) == [kind |-> kind, parent |-> parent, name |-> nm]

File(uuid, nm) == [uuid |-> uuid, name |-> nm]

\* Arena::new_node; the id of the new node is its position in the arena.
\* name and files are the HashMaps over NodeId: NoName and <<>> where a node
\* has no item.
new_node(t) ==
    [t EXCEPT !.arena = Append(@, [parent |-> 0, children |-> <<>>]),
              !.name = Append(@, NoName),
              !.files = Append(@, <<>>)]

add_root(t, uuid, nm) ==
    LET id == Len(t.arena) + 1
    IN [new_node(t) EXCEPT !.name[id] = nm, !.node[uuid] = id]

EmptyTree == [arena |-> <<>>, node |-> [u \in Uuids |-> 0], name |-> <<>>, files |-> <<>>]

Tree_new_trash_in_root ==
    LET t == add_root(add_root(EmptyTree, Trash, TrashName), MainRoot, RootName)
    IN [t EXCEPT !.arena[1].parent = 2, !.arena[2].children = <<1>>]

Tree_new == add_root(add_root(EmptyTree, Trash, TrashName), MainRoot, RootName)

\* `match self.node.get(&uuid) { Some(n) => *n, None => new_node and insert }`
node_or_new(t, uuid) ==
    IF t.node[uuid] # 0 THEN t
    ELSE [new_node(t) EXCEPT !.node[uuid] = Len(t.arena) + 1]

add_file(t, uuid, parent_uuid, nm) ==
    LET t1 == node_or_new(t, parent_uuid)
        parent_node == t1.node[parent_uuid]
    IN [t1 EXCEPT !.files[parent_node] = Append(@, File(uuid, nm))]

append_both_ways(arena, p, c) ==
    [arena EXCEPT ![c].parent = p, ![p].children = Append(@, c),
                  ![p].parent = c, ![c].children = Append(@, p)]

append_children_only(arena, p, c) == [arena EXCEPT ![p].children = Append(@, c)]

\* NodeId::append: the child leaves the parent it had and becomes the last
\* child of p
append(arena, p, c) ==
    LET old == arena[c].parent
        detached == IF old = 0 THEN arena
                    ELSE [arena EXCEPT ![old].children = SelectSeq(@, LAMBDA x : x # c)]
    IN [detached EXCEPT ![c].parent = p, ![p].children = Append(@, c)]

add_folder_fresh_node(t, uuid, parent_uuid, nm) ==
    LET t1 == [new_node(t) EXCEPT !.node[uuid] = Len(t.arena) + 1]
        node_id == t1.node[uuid]
        t2 == [t1 EXCEPT !.name[node_id] = nm]
        t3 == node_or_new(t2, parent_uuid)
        parent_node_id == t3.node[parent_uuid]
    IN [t3 EXCEPT !.arena = append(@, parent_node_id, node_id)]

add_folder(t, uuid, parent_uuid, nm) ==
    LET t1 == node_or_new(t, uuid)
        node_id == t1.node[uuid]
        t2 == [t1 EXCEPT !.name[node_id] = nm]
        t3 == node_or_new(t2, parent_uuid)
        parent_node_id == t3.node[parent_uuid]
    IN [t3 EXCEPT !.arena = append(@, parent_node_id, node_id)]

\* NodeId::ancestors: the node, its parent, and so on; k bounds the walk
RECURSIVE ancestors(_, _, _)
ancestors(arena, n, k) ==
    IF n = 0 \/ k = 0 THEN {}
    ELSE {n} \cup ancestors(arena, arena[n].parent, k - 1)

\* add_folder up to the call of append: the tree, the node and its parent
before_append(t, uuid, parent_uuid, nm) ==
    LET t1 == node_or_new(t, uuid)
        t2 == [t1 EXCEPT !.name[t1.node[uuid]] = nm]
        t3 == node_or_new(t2, parent_uuid)
    IN [tree |-> t3, node_id |-> t3.node[uuid], parent_node_id |-> t3.node[parent_uuid]]

\* what parent_node_id.append(node_id, ..) can do in add_folder. The indextree
\* in use is whatever version the build resolves: every version panics on a
\* node appended to itself, the later ones panic on a node appended below
\* itself as well, the earlier ones link it.
append_outcomes(arena, p, c) ==
    IF c = p THEN {"panic"}
    ELSE IF c \in ancestors(arena, p, Len(arena)) THEN {"panic", "link"}
    ELSE {"link"}

\* NodeId::descendants: the node, then the descendants of each child in turn
RECURSIVE descendants(_, _)
RECURSIVE descendants_of_all(_, _)
descendants(arena, n) == <<n>> \o descendants_of_all(arena, arena[n].children)

descendants_of_all(arena, list) ==
    IF list = <<>> THEN <<>>
    ELSE descendants(arena, list[1]) \o descendants_of_all(arena, Tail(list))

RECURSIVE files_of_all(_, _)
files_of_all(t, folders) ==
    IF folders = <<>> THEN <<>>
    ELSE [i \in DOMAIN t.files[folders[1]] |-> t.files[folders[1]][i].uuid]
         \o files_of_all(t, Tail(folders))

descendant_files_below(t, n) == files_of_all(t, Tail(descendants(t.arena, n)))

descendant_files(t, n) == files_of_all(t, descendants(t.arena, n))

\* ------------------------------------------------- directory.rs: node_for
\* a path is a string, here a sequence over the characters 1, 2 and '/';
\* the names of the records are the one-character strings, the name of the
\* main root is the empty string
Slash == 0
Chars == {1, 2, Slash}

RECURSIVE StringsUpTo(_)
StringsUpTo(n) ==
    IF n = 0 THEN {<<>>}
    ELSE StringsUpTo(n - 1) \cup
         {Append(s, c) : s \in {x \in StringsUpTo(n - 1) : Len(x) = n - 1}, c \in Chars}

\* the String a name of a node stands for
NameStr(nm) == IF nm = RootName THEN <<>> ELSE <<nm>>

\* str::split('/'): the pieces between the slashes, empty pieces included
RECURSIVE split(_)
split(path) ==
    IF \A i \in DOMAIN path : path[i] # Slash THEN <<path>>
    ELSE LET i == CHOOSE k \in DOMAIN path :
                     path[k] = Slash /\ \A j \in 1..(k - 1) : path[j] # Slash
         IN <<SubSeq(path, 1, i - 1)>> \o split(SubSeq(path, i + 1, Len(path)))

Panic == -1

RECURSIVE find_last(_, _, _)
find_last(t, cs, comp) ==
    IF cs = <<>> THEN 0
    ELSE IF t.name[Last(cs)] = NoName THEN Panic
    ELSE IF NameStr(t.name[Last(cs)]) = comp THEN Last(cs)
    ELSE find_last(t, Front(cs), comp)

\* children(..).find(|n| self.name.get(n).unwrap() == comp): the first child
\* of that name, 0 for None; a child without a name panics the unwrap
RECURSIVE find(_, _, _)
find(t, cs, comp) ==
    IF cs = <<>> THEN 0
    ELSE IF t.name[cs[1]] = NoName THEN Panic
    ELSE IF NameStr(t.name[cs[1]]) = comp THEN cs[1]
    ELSE find(t, Tail(cs), comp)

Ok(n) == [k |-> "Ok", node |-> n, path |-> <<>>]
Err(path) == [k |-> "Err", node |-> 0, path |-> path]

\* the loop over the components
RECURSIVE node_for_loop(_, _, _, _)
node_for_loop(t, node, comps, path) ==
    IF comps = <<>> THEN Ok(node)
    ELSE LET n == find(t, t.arena[node].children, comps[1])
         IN IF n = Panic THEN [k |-> "panic", node |-> 0, path |-> <<>>]
            ELSE IF n = 0 THEN Err(path)
            ELSE node_for_loop(t, n, Tail(comps), path)

node_for(t, path) ==
    IF path # <<>> THEN node_for_loop(t, t.node[MainRoot], split(path), path)
    ELSE Ok(t.node[MainRoot])

\* -------------------------------------------- util.rs: without_overlapping
\* str::starts_with
starts_with(path, prefix) ==
    Len(prefix) <= Len(path) /\ SubSeq(path, 1, Len(prefix)) = prefix

\* the orders list.sort_unstable_by_key(String::len) may leave the Vec in:
\* ascending in length, the order of paths of equal length is not preserved
sort_unstable_by_key(list) ==
    LET n == Len(list)
        turns == {f \in [1..n -> 1..n] : \A i, j \in 1..n : i # j => f[i] # f[j]}
    IN {s \in {[i \in 1..n |-> list[f[i]]] : f \in turns} :
           \A i \in 1..(n - 1) : Len(s[i]) <= Len(s[i + 1])}

RECURSIVE drain_pushing_all(_, _)
drain_pushing_all(list, res) ==
    IF list = <<>> THEN res
    ELSE drain_pushing_all(Tail(list), Append(res, list[1]))

\* for path in list.drain(..): push it unless a path of result is its prefix
RECURSIVE drain(_, _)
drain(list, res) ==
    IF list = <<>> THEN res
    ELSE IF \E i \in DOMAIN res : starts_with(list[1], res[i])
         THEN drain(Tail(list), res)
         ELSE drain(Tail(list), Append(res, list[1]))

\* every Vec without_overlapping(list) may return
without_overlapping(list) == {drain(sorted, <<>>) : sorted \in sort_unstable_by_key(list)}

\* ------------------------------------------------------- main.rs: lock
\* directory::map as a whole: the loop over read_dir, which yields the records
\* in the given order
RECURSIVE map(_, _, _)
map(t, r, order) ==
    IF order = <<>> THEN t
    ELSE LET u == order[1]
         IN map(IF r[u].kind = "folder"
                THEN add_folder(t, u, r[u].parent, r[u].name)
                ELSE add_file(t, u, r[u].parent, r[u].name),
                r, Tail(order))

\* forbidden.drain(..).map(|p| tree.node_for(&p)).collect::<Result<_>>():
\* collect takes the nodes up to the first Err and returns that Err alone
RECURSIVE collect(_, _, _)
collect(t, paths, nodes) ==
    IF paths = <<>> THEN [roots |-> nodes, err |-> <<>>]
    ELSE LET a == node_for(t, paths[1])
         IN IF a.k = "Ok" THEN collect(t, Tail(paths), Append(nodes, a.node))
            ELSE [roots |-> <<>>, err |-> <<a.path>>]

\* ------------------------------------------------- util.rs: should_lock
\* time::Time, of which the hour, the minute and the second are followed
Time(h, mi, s) == [hour |-> h, minute |-> mi, second |-> s]

\* the derived PartialOrd of Time: by hour, then minute, then second
le(a, b) ==
    \/ a.hour < b.hour
    \/ a.hour = b.hour /\ a.minute < b.minute
    \/ a.hour = b.hour /\ a.minute = b.minute /\ a.second <= b.second

should_lock_never_wrapping(t, start, end) == le(start, t) /\ le(t, end)

should_lock(t, start, end) ==
    IF le(start, end) THEN le(start, t) /\ le(t, end)
    ELSE le(start, t) \/ le(t, end)

NoAnswer == [k |-> "none", node |-> 0, path |-> <<>>]

NoClock == [now |-> Time(0, 0, 0), start |-> Time(0, 0, 0), end |-> Time(0, 0, 0)]

\* nothing of main.rs and util.rs is running
UtilIdle ==
    /\ asked = <<>>
    /\ answer = NoAnswer
    /\ forbidden = <<>>
    /\ roots = <<>>
    /\ report = <<>>
    /\ args_lock = <<>>
    /\ kept = <<>>
    /\ clock = NoClock
    /\ locking = FALSE

NotCalled == [called |-> FALSE, hidden |-> {}]

NoTimer == <<>>

NoArgs == <<>>

\* no lock, unlock or install is running; the ui is up, no document is hidden
RunIdle ==
    /\ ui = "active"
    /\ safe = {}
    /\ to_lock = {}
    /\ sync_ret = "none"
    /\ stopped = FALSE
    /\ hid = {}
    /\ at_unblock = NotCalled
    /\ timer = NoTimer
    /\ args = NoArgs

\* no Tree is being made
TreeIdle ==
    /\ recs = <<>>
    /\ todo = {}
    /\ tree = EmptyTree
    /\ index = <<>>
    /\ subroot = 0
    /\ found = <<>>

Init ==
    /\ now = 0
    /\ net = "up"
    /\ file = <<>>
    /\ rtable = {}
    /\ pc = "idle"
    /\ op = "none"
    /\ result = "none"
    /\ cache = <<>>
    /\ elapsed_s = 0
    /\ resolved = <<>>
    /\ round = NoRound
    /\ updated = None
    /\ targets = <<>>
    /\ idx = 1
    /\ routes = {}
    /\ attempt = 1
    /\ calls = 0
    /\ streak = 0
    /\ took = -1
    /\ last = NoCall
    /\ partial = FALSE
    /\ changed = {}
    /\ RunIdle
    /\ UtilIdle
    /\ TreeIdle

\* block, sync_routes: Cached::load
block_load ==
    /\ Idle
    /\ op' = "block"
    /\ IF load(file).ok
       THEN /\ cache' = load(file).entries
            /\ pc' = "resolve"
            /\ UNCHANGED result
       ELSE /\ pc' = "done"
            /\ result' = "LoadError"
            /\ UNCHANGED cache
    /\ UNCHANGED <<now, net, file, rtable, elapsed_s, resolved, updated, targets, idx,
                   routes, attempt, calls, streak, took, last, partial>>
    /\ UNCHANGED round
    /\ UNCHANGED tvars
    /\ UNCHANGED uvars
    /\ UNCHANGED changed
    /\ UNCHANGED rvars

\* sync_routes: one turn of the resolve loop; `keep` tells whether the
\* history variable round follows it
ResolveRound(keep) ==
    /\ pc = "resolve"
    /\ \E out \in [SYNC_BACKENDS -> LookupResults(net)] :
          LET rs == resolve_sync_routes(out)
              r == resolve_step(rs, elapsed_s + RoundSecs)
          IN /\ round' = IF keep THEN [out |-> out, res |-> rs.res, err |-> rs.err,
                                       e |-> elapsed_s + RoundSecs]
                         ELSE NoRound
             /\ IF r.k = "break"
                THEN /\ resolved' = r.resolved
                     /\ pc' = "merge"
                     /\ elapsed_s' = 0
                ELSE /\ elapsed_s' = elapsed_s + RoundSecs
                     /\ UNCHANGED <<resolved, pc>>
    /\ UNCHANGED <<now, net, file, rtable, op, result, cache, updated, targets, idx, routes,
                   attempt, calls, streak, took, last, partial>>
    /\ UNCHANGED tvars
    /\ UNCHANGED uvars
    /\ UNCHANGED changed
    /\ UNCHANGED rvars

resolve_round == ResolveRound(FALSE)

resolve_round_followed == ResolveRound(TRUE)

\* sync_routes: cache.update(resolved), routes.cache(), routes.into_ips()
merge ==
    /\ pc = "merge"
    /\ updated' = update(cache, resolved, now)
    /\ IF updated'.some
       THEN /\ file' = cache_write(file, updated'.routes)
            /\ targets' = into_ips(updated'.routes)
            /\ pc' = "table"
            /\ UNCHANGED result
       ELSE /\ pc' = "done"
            /\ result' = "CacheEmpty"
            /\ UNCHANGED <<file, targets>>
    /\ UNCHANGED <<now, net, rtable, op, cache, elapsed_s, resolved, idx, routes,
                   attempt, calls, streak, took, last, partial>>
    /\ UNCHANGED round
    /\ UNCHANGED tvars
    /\ UNCHANGED uvars
    /\ UNCHANGED changed
    /\ UNCHANGED rvars

unblock_load_resolving ==
    /\ Idle
    /\ op' = "unblock"
    /\ pc' = "resolve"
    /\ cache' = IF load(file).ok THEN load(file).entries ELSE <<>>
    /\ UNCHANGED <<now, net, file, rtable, result, elapsed_s, resolved, updated, targets, idx,
                   routes, attempt, calls, streak, took, last, partial>>
    /\ UNCHANGED round
    /\ UNCHANGED tvars
    /\ UNCHANGED uvars
    /\ UNCHANGED changed
    /\ UNCHANGED rvars

\* unblock: Cached::load, blocked_ips
unblock_load ==
    /\ Idle
    /\ op' = "unblock"
    /\ IF load(file).ok
       THEN /\ cache' = load(file).entries
            /\ targets' = blocked_ips(load(file).entries)
            /\ pc' = "table"
            /\ UNCHANGED result
       ELSE /\ pc' = "done"
            /\ result' = "LoadError"
            /\ UNCHANGED <<cache, targets>>
    /\ UNCHANGED <<now, net, file, rtable, elapsed_s, resolved, updated, idx, routes,
                   attempt, calls, streak, took, last, partial>>
    /\ UNCHANGED round
    /\ UNCHANGED tvars
    /\ UNCHANGED uvars
    /\ UNCHANGED changed
    /\ UNCHANGED rvars

\* block / unblock: route::table() before the for loop; the locals of
\* sync_routes are gone
read_table ==
    /\ pc = "table"
    /\ cache' = <<>>
    /\ resolved' = <<>>
    /\ round' = NoRound
    /\ updated' = None
    /\ \E tok \in BOOLEAN :
          IF tok
          THEN /\ routes' = route_table(rtable)
               /\ pc' = "for"
               /\ UNCHANGED result
          ELSE /\ pc' = "done"
               /\ result' = "TableError"
               /\ UNCHANGED routes
    /\ UNCHANGED <<now, net, file, rtable, op, elapsed_s, targets, idx, attempt, calls,
                   streak, took, last, partial>>
    /\ UNCHANGED tvars
    /\ UNCHANGED uvars
    /\ UNCHANGED changed
    /\ UNCHANGED rvars

\* `for addr in ..`: the next address is skipped or its loop entered; Ok(())
\* behind the last address
for_next ==
    /\ pc = "for"
    /\ IF idx > Len(targets)
       THEN /\ pc' = "done"
            /\ result' = "Ok"
            /\ UNCHANGED idx
       ELSE IF (IF op = "block" THEN block_skips(routes, targets[idx])
                                ELSE unblock_skips(routes, targets[idx]))
       THEN /\ idx' = idx + 1
            /\ UNCHANGED <<pc, result>>
       ELSE /\ pc' = "loop"
            /\ UNCHANGED <<idx, result>>
    /\ UNCHANGED <<now, net, file, rtable, op, cache, elapsed_s, resolved, updated, targets,
                   routes, attempt, calls, streak, took, last, partial>>
    /\ UNCHANGED round
    /\ UNCHANGED tvars
    /\ UNCHANGED uvars
    /\ UNCHANGED changed
    /\ UNCHANGED rvars

\* what follows the match: the run ends ("timeout", "fail"), the loop turns
\* again ("retry", "again"), or the loop is left for the next address ("break")
After(m) ==
    /\ attempt' = IF m = "retry" THEN attempt + 1 ELSE attempt
    /\ CASE m = "timeout" -> pc' = "done" /\ result' = "Timeout" /\ UNCHANGED idx
         [] m = "fail" -> pc' = "done" /\ result' = "RouteError" /\ UNCHANGED idx
         [] m \in {"retry", "again"} -> UNCHANGED <<pc, result, idx>>
         [] OTHER -> pc' = "for" /\ idx' = idx + 1 /\ UNCHANGED result

\* history of one invocation: `o` the outcome, `missed` whether the program
\* exited 0 and the address still is in the state it was to leave
Record(f, a, o, ret, missed) ==
    /\ calls' = calls + 1
    /\ streak' = IF missed THEN streak + 1 ELSE 0
    /\ took' = IF o = "effect" THEN streak ELSE took
    /\ last' = Called(f, a, a \in rtable, o, ret)
    /\ changed' = IF o = "effect" THEN changed \cup {a} ELSE changed

\* one turn of the loop of block: route::block(addr) and the match
block_try ==
    /\ pc = "loop"
    /\ op = "block"
    /\ calls < MaxCalls
    /\ LET a == targets[idx]
       IN \E o \in AddOutcomes(a, rtable) :
            /\ rtable' = AddEffect(a, rtable, o)
            /\ Record("block", a, o, route_block(o), o = "noeffect" /\ a \notin rtable)
            /\ After(block_match(route_block(o), attempt))
    /\ UNCHANGED <<now, net, file, op, cache, elapsed_s, resolved, updated, targets, routes,
                   partial>>
    /\ UNCHANGED round
    /\ UNCHANGED tvars
    /\ UNCHANGED uvars
    /\ UNCHANGED rvars

\* one turn of the loop of unblock: route::unblock(addr) and the match
unblock_try ==
    /\ pc = "loop"
    /\ op = "unblock"
    /\ calls < MaxCalls
    /\ LET a == targets[idx]
       IN \E o \in DelOutcomes(a, rtable), tok \in BOOLEAN :
            LET ret == route_unblock(a, o, DelEffect(a, rtable, o), tok)
            IN /\ rtable' = DelEffect(a, rtable, o)
               /\ Record("unblock", a, o, ret, ret = "NoEffect")
               /\ After(unblock_match(ret, attempt))
    /\ UNCHANGED <<now, net, file, op, cache, elapsed_s, resolved, updated, targets, routes,
                   partial>>
    /\ UNCHANGED round
    /\ UNCHANGED tvars
    /\ UNCHANGED uvars
    /\ UNCHANGED rvars

PartlyInstalled == Range(targets) \cap rtable # {} /\ Range(targets) \ rtable # {}

\* the process is killed in the middle of a run
interrupt ==
    /\ pc \notin {"idle", "done"}
    /\ pc' = "done"
    /\ result' = "Interrupted"
    /\ partial' = (partial \/ (op = "block" /\ pc \in {"for", "loop"} /\ PartlyInstalled))
    /\ UNCHANGED <<now, net, file, rtable, op, cache, elapsed_s, resolved, updated, targets,
                   idx, routes, attempt, calls, streak, took, last>>
    /\ UNCHANGED round
    /\ UNCHANGED tvars
    /\ UNCHANGED uvars
    /\ UNCHANGED changed
    /\ UNCHANGED rvars

\* the process has returned; nothing of the run is left but the file and the table
finish ==
    /\ pc = "done"
    /\ pc' = "idle"
    /\ op' = "none"
    /\ result' = "none"
    /\ cache' = <<>>
    /\ elapsed_s' = 0
    /\ resolved' = <<>>
    /\ round' = NoRound
    /\ updated' = None
    /\ targets' = <<>>
    /\ idx' = 1
    /\ routes' = {}
    /\ attempt' = 1
    /\ calls' = 0
    /\ streak' = 0
    /\ took' = -1
    /\ last' = NoCall
    /\ changed' = {}
    /\ UNCHANGED <<now, net, file, rtable, partial>>
    /\ UNCHANGED tvars
    /\ UNCHANGED uvars
    /\ UNCHANGED rvars

\* twelve weeks pass between two runs
tick ==
    /\ Idle
    /\ now + EXPIRATION + 1 <= MaxTime
    /\ now' = now + EXPIRATION + 1
    /\ UNCHANGED <<net, file, rtable, pc, op, result, cache, elapsed_s, resolved, updated,
                   targets, idx, routes, attempt, calls, streak, took, last, partial>>
    /\ UNCHANGED round
    /\ UNCHANGED tvars
    /\ UNCHANGED uvars
    /\ UNCHANGED changed
    /\ UNCHANGED rvars

\* the network comes or goes between two runs
net_change ==
    /\ Idle
    /\ net' = IF net = "up" THEN "down" ELSE "up"
    /\ UNCHANGED <<now, file, rtable, pc, op, result, cache, elapsed_s, resolved, updated,
                   targets, idx, routes, attempt, calls, streak, took, last, partial>>
    /\ UNCHANGED round
    /\ UNCHANGED tvars
    /\ UNCHANGED uvars
    /\ UNCHANGED changed
    /\ UNCHANGED rvars

Next ==
    \/ block_load
    \/ resolve_round
    \/ merge
    \/ unblock_load
    \/ read_table
    \/ for_next
    \/ block_try
    \/ unblock_try
    \/ interrupt
    \/ finish
    \/ tick
    \/ net_change

Spec == Init /\ [][Next]_vars

TypeOK ==
    /\ now \in 0..MaxTime
    /\ rtable \subseteq IPs
    /\ attempt \in 1..(MaxCalls + 1)

\* ------------------------------------------------- the cache on its own
\* Cached::update applied to every cache the program can have written (one
\* entry per ip, in ip order, any time stamps, also later than now when the
\* clock was set back) and every list a resolution can give.
CacheOf(f) == LET S == {i \in IPs : f[i] >= 0} IN [k \in 1..Cardinality(S) |-> Entry(SortedSeq(S)[k], f[SortedSeq(S)[k]])]

InitCache ==
    /\ now \in 0..MaxTime
    /\ net = "up"
    /\ file = <<>>
    /\ rtable = {}
    /\ pc = "cache_in"
    /\ op = "none"
    /\ result = "none"
    /\ \E f \in [IPs -> -1..MaxTime] : cache = CacheOf(f)
    /\ elapsed_s = 0
    /\ \E S \in SUBSET IPs : resolved = SortedSeq(S)
    /\ round = NoRound
    /\ updated = None
    /\ targets = <<>>
    /\ idx = 1
    /\ routes = {}
    /\ attempt = 1
    /\ calls = 0
    /\ streak = 0
    /\ took = -1
    /\ last = NoCall
    /\ partial = FALSE
    /\ changed = {}
    /\ RunIdle
    /\ UtilIdle
    /\ TreeIdle

cache_update ==
    /\ pc = "cache_in"
    /\ pc' = "cache_out"
    /\ updated' = update(cache, resolved, now)
    /\ UNCHANGED <<now, net, file, rtable, op, result, cache, elapsed_s, resolved, targets,
                   idx, routes, attempt, calls, streak, took, last, partial>>
    /\ UNCHANGED round
    /\ UNCHANGED tvars
    /\ UNCHANGED uvars
    /\ UNCHANGED changed
    /\ UNCHANGED rvars

NextCache == cache_update

SpecCache == InitCache /\ [][NextCache]_vars

\* --------------------------------------------- sync_routes on its own
\* What block() does behind sync_routes touches neither routes.json nor the
\* clock, so the runs are followed up to the return of sync_routes.  In
\* SpecResolve the history variable round follows every resolve_sync_routes;
\* in SpecCycles the clock has its full resolution.
NextResolve ==
    \/ block_load
    \/ resolve_round_followed
    \/ merge
    \/ interrupt
    \/ finish
    \/ net_change

SpecResolve == Init /\ [][NextResolve]_vars

\* four weeks pass between two runs
tick_one ==
    /\ Idle
    /\ now < MaxTime
    /\ now' = now + 1
    /\ UNCHANGED <<net, file, rtable, pc, op, result, cache, elapsed_s, resolved, round,
                   updated, targets, idx, routes, attempt, calls, streak, took, last, partial>>
    /\ UNCHANGED tvars
    /\ UNCHANGED uvars
    /\ UNCHANGED changed
    /\ UNCHANGED rvars

NextCycles ==
    \/ block_load
    \/ resolve_round
    \/ merge
    \/ interrupt
    \/ finish
    \/ tick_one
    \/ net_change

SpecCycles == Init /\ [][NextCycles]_vars

\* ------------------------------------------------- the Tree on its own
\* directory::map over every data directory of NRecs records whose parent
\* fields name a root or another record and whose folders do not lie in one
\* another; read_dir yields the records in any order.
RECURSIVE ParentChain(_, _, _)
ParentChain(r, u, n) ==
    IF n = 0 \/ u \notin DOMAIN r THEN {}
    ELSE {r[u].parent} \cup
         (IF r[u].parent \in DOMAIN r /\ r[r[u].parent].kind = "folder"
          THEN ParentChain(r, r[u].parent, n - 1) ELSE {})

Acyclic(r) == \A u \in DOMAIN r : r[u].kind = "folder" => u \notin ParentChain(r, u, Len(r))

InitTree ==
    /\ now = 0
    /\ net = "up"
    /\ file = <<>>
    /\ rtable = {}
    /\ pc = "map"
    /\ op = "none"
    /\ result = "none"
    /\ cache = <<>>
    /\ elapsed_s = 0
    /\ resolved = <<>>
    /\ round = NoRound
    /\ updated = None
    /\ targets = <<>>
    /\ idx = 1
    /\ routes = {}
    /\ attempt = 1
    /\ calls = 0
    /\ streak = 0
    /\ took = -1
    /\ last = NoCall
    /\ partial = FALSE
    /\ changed = {}
    /\ RunIdle
    /\ UtilIdle
    /\ \E kinds \in [RecUuids -> {"folder", "doc"}], parents \in [RecUuids -> Uuids] :
          /\ \A u \in RecUuids : parents[u] # u
          /\ recs = [u \in RecUuids |-> Rec(kinds[u], parents[u], NameOf(u))]
          /\ Acyclic(recs)
    /\ todo = RecUuids
    /\ tree = Tree_new
    /\ index = [n \in {} |-> 0]
    /\ subroot = 0
    /\ found = <<>>

\* map: one turn of the loop over read_dir
map_entry ==
    /\ pc = "map"
    /\ \E u \in todo :
          /\ todo' = todo \ {u}
          /\ index' = [n \in DOMAIN index \cup {recs[u].name} |->
                          IF n = recs[u].name THEN u ELSE index[n]]
          /\ tree' = IF recs[u].kind = "folder"
                     THEN add_folder(tree, u, recs[u].parent, recs[u].name)
                     ELSE add_file(tree, u, recs[u].parent, recs[u].name)
    /\ UNCHANGED <<now, net, file, rtable, pc, op, result, cache, elapsed_s, resolved, round,
                   updated, targets, idx, routes, attempt, calls, streak, took, last, partial,
                   recs, subroot, found>>
    /\ UNCHANGED uvars
    /\ UNCHANGED changed
    /\ UNCHANGED rvars

\* descendant_files on a node of the Tree that map returned
descendant_files_call ==
    /\ pc = "map"
    /\ todo = {}
    /\ pc' = "found"
    /\ \E n \in DOMAIN tree.arena :
          /\ subroot' = n
          /\ found' = descendant_files(tree, n)
    /\ UNCHANGED <<now, net, file, rtable, op, result, cache, elapsed_s, resolved, round,
                   updated, targets, idx, routes, attempt, calls, streak, took, last, partial,
                   recs, todo, tree, index>>
    /\ UNCHANGED uvars
    /\ UNCHANGED changed
    /\ UNCHANGED rvars

NextTree ==
    \/ map_entry
    \/ descendant_files_call

SpecTree == InitTree /\ [][NextTree]_vars

\* ---------------------------------------------- node_for on the Tree of map
\* tree.node_for(path) on the Tree that map returned, for any path of up to
\* MaxPath characters
node_for_call ==
    /\ pc = "map"
    /\ todo = {}
    /\ pc' = "asked"
    /\ \E path \in StringsUpTo(MaxPath) :
          /\ asked' = path
          /\ answer' = node_for(tree, path)
    /\ UNCHANGED <<now, net, file, rtable, op, result, cache, elapsed_s, resolved, round,
                   updated, targets, idx, routes, attempt, calls, streak, took, last, partial,
                   changed, tvars>>
    /\ UNCHANGED <<forbidden, roots, report, args_lock, kept, clock, locking>>
    /\ UNCHANGED rvars

NextPath ==
    \/ map_entry
    \/ node_for_call

SpecPath == InitTree /\ [][NextPath]_vars

\* ------------------------------------------ without_overlapping on its own
\* every run variable of sync.rs at rest, whatever pc is
SyncStill ==
    /\ now = 0
    /\ net = "up"
    /\ file = <<>>
    /\ rtable = {}
    /\ op = "none"
    /\ result = "none"
    /\ cache = <<>>
    /\ elapsed_s = 0
    /\ resolved = <<>>
    /\ round = NoRound
    /\ updated = None
    /\ targets = <<>>
    /\ idx = 1
    /\ routes = {}
    /\ attempt = 1
    /\ calls = 0
    /\ streak = 0
    /\ took = -1
    /\ last = NoCall
    /\ partial = FALSE
    /\ changed = {}

SyncQuiet ==
    /\ SyncStill
    /\ RunIdle

\* the paths of the --lock arguments: strings of up to MaxSeg characters
Names == {s \in StringsUpTo(MaxSeg) : \A i \in DOMAIN s : s[i] # Slash}

RECURSIVE ListsUpTo(_, _)
ListsUpTo(S, n) ==
    IF n = 0 THEN {<<>>}
    ELSE ListsUpTo(S, n - 1) \cup
         {Append(l, x) : l \in {y \in ListsUpTo(S, n - 1) : Len(y) = n - 1}, x \in S}

InitOverlap ==
    /\ SyncQuiet
    /\ TreeIdle
    /\ pc = "args"
    /\ asked = <<>>
    /\ answer = NoAnswer
    /\ forbidden = <<>>
    /\ roots = <<>>
    /\ report = <<>>
    /\ args_lock \in ListsUpTo(Names, MaxList)
    /\ kept = <<>>
    /\ clock = NoClock
    /\ locking = FALSE

\* run: let forbidden = without_overlapping(args.lock)
without_overlapping_call ==
    /\ pc = "args"
    /\ pc' = "kept"
    /\ kept' \in without_overlapping(args_lock)
    /\ UNCHANGED <<now, net, file, rtable, op, result, cache, elapsed_s, resolved, round,
                   updated, targets, idx, routes, attempt, calls, streak, took, last, partial,
                   changed, tvars>>
    /\ UNCHANGED <<asked, answer, forbidden, roots, report, args_lock, clock, locking>>
    /\ UNCHANGED rvars

\* without_overlapping on the list it returned
without_overlapping_again ==
    /\ pc = "kept"
    /\ pc' = "again"
    /\ args_lock' = kept
    /\ kept' \in without_overlapping(kept)
    /\ UNCHANGED <<now, net, file, rtable, op, result, cache, elapsed_s, resolved, round,
                   updated, targets, idx, routes, attempt, calls, streak, took, last, partial,
                   changed, tvars>>
    /\ UNCHANGED <<asked, answer, forbidden, roots, report, clock, locking>>
    /\ UNCHANGED rvars

NextOverlap ==
    \/ without_overlapping_call
    \/ without_overlapping_again

SpecOverlap == InitOverlap /\ [][NextOverlap]_vars

\* ----------------------------------------------------- lock on its own
\* run with --lock paths of up to MaxSeg characters, at a time to lock, in a
\* data directory of NRecs folders that lie in the main root or in the trash
InitLock ==
    /\ SyncQuiet
    /\ pc = "args"
    /\ asked = <<>>
    /\ answer = NoAnswer
    /\ forbidden = <<>>
    /\ roots = <<>>
    /\ report = <<>>
    /\ args_lock \in ListsUpTo(Names, MaxList)
    /\ kept = <<>>
    /\ clock = NoClock
    /\ locking = FALSE
    /\ \E parents \in [RecUuids -> {Trash, MainRoot}] :
          recs = [u \in RecUuids |-> Rec("folder", parents[u], NameOf(u))]
    /\ todo = RecUuids
    /\ tree = EmptyTree
    /\ index = <<>>
    /\ subroot = 0
    /\ found = <<>>

\* lock, from directory::map to the roots of the folders to lock
lock_roots ==
    /\ pc = "kept"
    /\ pc' = "locked"
    /\ forbidden' = kept
    /\ \E order \in {s \in [RecUuids -> RecUuids] : \A i, j \in RecUuids : i # j => s[i] # s[j]} :
          LET t == map(Tree_new, recs, order)
              got == collect(t, kept, <<>>)
          IN /\ tree' = t
             /\ todo' = {}
             /\ roots' = got.roots
             /\ report' = got.err
    /\ UNCHANGED <<now, net, file, rtable, op, result, cache, elapsed_s, resolved, round,
                   updated, targets, idx, routes, attempt, calls, streak, took, last, partial,
                   changed, recs, index, subroot, found>>
    /\ UNCHANGED <<asked, answer, args_lock, kept, clock, locking>>
    /\ UNCHANGED rvars

NextLock ==
    \/ without_overlapping_call
    \/ lock_roots

SpecLock == InitLock /\ [][NextLock]_vars

\* ------------------------------------------------ should_lock on its own
\* run at any time of the day, with --start and --end any hour and minute:
\* try_parse makes them with from_hms(h, m, 0), now has seconds
Hours == 0..MaxHour
Minutes == 0..MaxMinute

InitTime ==
    /\ SyncQuiet
    /\ TreeIdle
    /\ pc = "clock"
    /\ asked = <<>>
    /\ answer = NoAnswer
    /\ forbidden = <<>>
    /\ roots = <<>>
    /\ report = <<>>
    /\ args_lock = <<>>
    /\ kept = <<>>
    /\ \E h1, h2, h3 \in Hours, m1, m2, m3 \in Minutes, s \in 0..1 :
          clock = [now |-> Time(h1, m1, s), start |-> Time(h2, m2, 0), end |-> Time(h3, m3, 0)]
    /\ locking = FALSE

\* run: if util::should_lock(now, start, end)
should_lock_call ==
    /\ pc = "clock"
    /\ pc' = "timed"
    /\ locking' = should_lock(clock.now, clock.start, clock.end)
    /\ UNCHANGED <<now, net, file, rtable, op, result, cache, elapsed_s, resolved, round,
                   updated, targets, idx, routes, attempt, calls, streak, took, last, partial,
                   changed, tvars>>
    /\ UNCHANGED <<asked, answer, forbidden, roots, report, args_lock, kept, clock>>
    /\ UNCHANGED rvars

NextTime ==
    \/ should_lock_call

SpecTime == InitTime /\ [][NextTime]_vars

\* ------------------------------------- map over any data directory at all
\* directory::map over NRecs records whose parent fields name any id: a
\* root, another record, the record itself, records that name each other
InitBuild ==
    /\ SyncQuiet
    /\ UtilIdle
    /\ pc = "map"
    /\ \E kinds \in [RecUuids -> {"folder", "doc"}], parents \in [RecUuids -> Uuids] :
          recs = [u \in RecUuids |-> Rec(kinds[u], parents[u], NameOf(u))]
    /\ todo = RecUuids
    /\ tree = Tree_new
    /\ index = [n \in {} |-> 0]
    /\ subroot = 0
    /\ found = <<>>

\* map: one turn of the loop over read_dir; a panic of append ends the process
map_entry_any ==
    /\ pc = "map"
    /\ \E u \in todo :
          /\ todo' = todo \ {u}
          /\ index' = [n \in DOMAIN index \cup {recs[u].name} |->
                          IF n = recs[u].name THEN u ELSE index[n]]
          /\ IF recs[u].kind = "folder"
             THEN LET b == before_append(tree, u, recs[u].parent, recs[u].name)
                  IN \E o \in append_outcomes(b.tree.arena, b.parent_node_id, b.node_id) :
                        IF o = "panic"
                        THEN tree' = b.tree /\ pc' = "panic"
                        ELSE /\ tree' = add_folder(tree, u, recs[u].parent, recs[u].name)
                             /\ pc' = pc
             ELSE /\ tree' = add_file(tree, u, recs[u].parent, recs[u].name)
                  /\ pc' = pc
    /\ UNCHANGED <<now, net, file, rtable, op, result, cache, elapsed_s, resolved, round,
                   updated, targets, idx, routes, attempt, calls, streak, took, last, partial,
                   changed, recs, subroot, found>>
    /\ UNCHANGED uvars
    /\ UNCHANGED rvars

NextBuild ==
    \/ map_entry_any

SpecBuild == InitBuild /\ [][NextBuild]_vars

\* --------------------------------- map over records that may lack a field
\* directory::map over NRecs .metadata files of which any may lack the
\* parent, the visibleName or the type field; the others are as in InitTree
Lacks == {"nothing", "parent", "visibleName", "type"}

InitParse ==
    /\ SyncQuiet
    /\ UtilIdle
    /\ pc = "map"
    /\ \E kinds \in [RecUuids -> {"folder", "doc"}], parents \in [RecUuids -> Uuids],
          lacks \in [RecUuids -> Lacks] :
          /\ \A u \in RecUuids : parents[u] # u
          /\ Acyclic([u \in RecUuids |-> Rec(kinds[u], parents[u], NameOf(u))])
          /\ recs = [u \in RecUuids |->
                        Rec(IF lacks[u] = "type" THEN "missing" ELSE kinds[u],
                            IF lacks[u] = "parent" THEN NoField ELSE parents[u],
                            IF lacks[u] = "visibleName" THEN NoField ELSE NameOf(u))]
    /\ todo = RecUuids
    /\ tree = Tree_new
    /\ index = [n \in {} |-> 0]
    /\ subroot = 0
    /\ found = <<>>

\* map: one turn of the loop over read_dir: parent(..).unwrap(),
\* name(..).unwrap(), index.insert, is_folder (extract_field(..).unwrap()),
\* add_folder or add_file; a panic of unwrap ends the process
map_entry_parsing ==
    /\ pc = "map"
    /\ \E u \in todo :
          /\ todo' = todo \ {u}
          /\ IF recs[u].parent = NoField \/ recs[u].name = NoField
             THEN pc' = "panic" /\ UNCHANGED <<index, tree>>
             ELSE /\ index' = [n \in DOMAIN index \cup {recs[u].name} |->
                                  IF n = recs[u].name THEN u ELSE index[n]]
                  /\ IF recs[u].kind = "missing"
                     THEN pc' = "panic" /\ UNCHANGED tree
                     ELSE /\ pc' = pc
                          /\ tree' = IF is_folder(recs[u])
                                     THEN add_folder(tree, u, recs[u].parent, recs[u].name)
                                     ELSE add_file(tree, u, recs[u].parent, recs[u].name)
    /\ UNCHANGED <<now, net, file, rtable, op, result, cache, elapsed_s, resolved, round,
                   updated, targets, idx, routes, attempt, calls, streak, took, last, partial,
                   changed, recs, subroot, found>>
    /\ UNCHANGED uvars
    /\ UNCHANGED rvars

NextParse ==
    \/ map_entry_parsing

SpecParse == InitParse /\ [][NextParse]_vars

\* --------------------------------------------- main.rs: lock and unlock
\* The documents of the tablet. A run of lock or unlock is followed call by
\* call; sync::block and sync::unblock, followed route by route in Spec, are
\* taken here by what they return.
Docs == 1..NDocs

\* the variables of sync.rs that lock and unlock leave to sync::block
svars == <<now, net, file, rtable, cache, elapsed_s, resolved, round, updated, targets,
           idx, routes, attempt, calls, streak, took, last, partial, changed>>

lock_moving_first(step) ==
    CASE step = "stop"    -> "restore"
      [] step = "restore" -> "map"
      [] step = "map"     -> "report"
      [] step = "report"  -> "move"
      [] step = "move"    -> "block"
      [] step = "block"   -> "reset"
      [] step = "reset"   -> "start"
      [] step = "start"   -> "done"

\* lock: the calls in the order of the code
lock_next(step) ==
    CASE step = "stop"    -> "restore"
      [] step = "restore" -> "map"
      [] step = "map"     -> "report"
      [] step = "report"  -> "block"
      [] step = "block"   -> "move"
      [] step = "move"    -> "reset"
      [] step = "reset"   -> "start"
      [] step = "start"   -> "done"

\* unlock: the calls in the order of the code
unlock_next(step) ==
    CASE step = "stop"     -> "restore"
      [] step = "restore"  -> "unreport"
      [] step = "unreport" -> "reset"
      [] step = "reset"    -> "start"
      [] step = "start"    -> "unblock"
      [] step = "unblock"  -> "done"

next_step(step) == IF op = "lock" THEN lock_next(step) ELSE unlock_next(step)

\* the call at `step` returned Ok: on to the next one; the value of the last
\* call is the value of the run
returned_ok(step) ==
    /\ pc' = next_step(step)
    /\ result' = IF next_step(step) = "done" THEN "Ok" ELSE result

\* the call returned Err, which `?` (or the last line) returns from the run
returned_err ==
    /\ pc' = "done"
    /\ result' = "Err"

InitRun ==
    /\ SyncQuiet
    /\ TreeIdle
    /\ UtilIdle
    /\ pc = "idle"

\* run: should_lock(now, start, end) holds, lock(forbidden, end)
lock_begin ==
    /\ pc = "idle"
    /\ op' = "lock"
    /\ pc' = "stop"
    /\ UNCHANGED <<result, svars, tvars, uvars, rvars>>

\* run: should_lock does not hold, or the Unlock command: unlock()
unlock_begin ==
    /\ pc = "idle"
    /\ op' = "unlock"
    /\ pc' = "locked_files"
    /\ UNCHANGED <<result, svars, tvars, uvars, rvars>>

\* unlock: if locked_files()?
locked_files_step ==
    /\ pc = "locked_files"
    /\ \/ /\ pc' = IF safe # {} THEN "stop" ELSE "unblock"
          /\ UNCHANGED result
       \/ returned_err
    /\ UNCHANGED <<op, svars, tvars, uvars, rvars>>

\* systemd::ui_action("stop")?: systemctl stop xochitl, then wait_for
ui_stop ==
    /\ pc = "stop"
    /\ \/ /\ returned_ok("stop")
          /\ ui' = "inactive"
          /\ stopped' = TRUE
       \/ /\ returned_err
          /\ UNCHANGED <<ui, stopped>>
    /\ UNCHANGED <<op, svars, tvars, uvars>>
    /\ UNCHANGED <<safe, to_lock, sync_ret, hid, at_unblock, timer, args>>

\* unlock_files()?: every entry of locked_books is renamed back, up to the
\* first rename that fails
unlock_files_step ==
    /\ pc = "restore"
    /\ \E moved \in SUBSET safe :
          /\ safe' = safe \ moved
          /\ \/ moved = safe /\ returned_ok("restore")
             \/ returned_err
    /\ UNCHANGED <<op, svars, tvars, uvars>>
    /\ UNCHANGED <<ui, to_lock, sync_ret, stopped, hid, at_unblock, timer, args>>

\* lock: directory::map()?, node_for of every root, collect()?,
\* descendant_files(node)? of every root: the documents to lock
map_step ==
    /\ pc = "map"
    /\ \/ /\ returned_ok("map")
          /\ to_lock' \in SUBSET (Docs \ safe)
       \/ /\ returned_err
          /\ UNCHANGED to_lock
    /\ UNCHANGED <<op, svars, tvars, uvars>>
    /\ UNCHANGED <<ui, safe, sync_ret, stopped, hid, at_unblock, timer, args>>

\* lock: report::build, report::save(pdf)?
report_step ==
    /\ pc = "report"
    /\ \/ returned_ok("report")
       \/ returned_err
    /\ UNCHANGED <<op, svars, tvars, uvars, rvars>>

\* unlock: report::remove()?
unreport_step ==
    /\ pc = "unreport"
    /\ \/ returned_ok("unreport")
       \/ returned_err
    /\ UNCHANGED <<op, svars, tvars, uvars, rvars>>

\* lock: sync::block()?
sync_block_step ==
    /\ pc = "block"
    /\ \/ /\ returned_ok("block")
          /\ sync_ret' = "Ok"
       \/ /\ returned_err
          /\ sync_ret' = "Err"
    /\ UNCHANGED <<op, svars, tvars, uvars>>
    /\ UNCHANGED <<ui, safe, to_lock, stopped, hid, at_unblock, timer, args>>

\* lock: move_docs(to_lock)?: every document is moved to locked_books, up to
\* the first rename that fails; the document it fails on has moved in part
\* (some of its files) or not at all
move_docs_step ==
    /\ pc = "move"
    /\ \E moved \in SUBSET to_lock :
          /\ safe' = safe \union moved
          /\ hid' = hid \union moved
          /\ \/ /\ moved = to_lock
                /\ to_lock' = {}
                /\ returned_ok("move")
             \/ /\ moved # {}
                /\ to_lock' = {}
                /\ returned_err
             \/ /\ moved # to_lock
                /\ to_lock' = {}
                /\ returned_err
    /\ UNCHANGED <<op, svars, tvars, uvars>>
    /\ UNCHANGED <<ui, sync_ret, stopped, at_unblock, timer, args>>

\* systemd::reset_failed()?
reset_step ==
    /\ pc = "reset"
    /\ \/ returned_ok("reset")
       \/ returned_err
    /\ UNCHANGED <<op, svars, tvars, uvars, rvars>>

\* systemd::ui_action("start"): systemctl start xochitl, then wait_for
ui_start ==
    /\ pc = "start"
    /\ \/ /\ returned_ok("start")
          /\ ui' = "active"
       \/ /\ returned_err
          /\ UNCHANGED ui
    /\ UNCHANGED <<op, svars, tvars, uvars>>
    /\ UNCHANGED <<safe, to_lock, sync_ret, stopped, hid, at_unblock, timer, args>>

\* unlock: sync::unblock(), whose value is the value of unlock
sync_unblock_step ==
    /\ pc = "unblock"
    /\ at_unblock' = [called |-> TRUE, hidden |-> safe]
    /\ pc' = "done"
    /\ result' \in {"Ok", "Err"}
    /\ UNCHANGED <<op, svars, tvars, uvars>>
    /\ UNCHANGED <<ui, safe, to_lock, sync_ret, stopped, hid, timer, args>>

\* the process ends; the timer starts the next run
run_return ==
    /\ pc = "done"
    /\ pc' = "idle"
    /\ op' = "none"
    /\ result' = "none"
    /\ to_lock' = {}
    /\ sync_ret' = "none"
    /\ stopped' = FALSE
    /\ hid' = {}
    /\ at_unblock' = NotCalled
    /\ UNCHANGED <<ui, safe, timer, args>>
    /\ UNCHANGED <<svars, tvars, uvars>>

NextRun ==
    \/ lock_begin
    \/ unlock_begin
    \/ locked_files_step
    \/ ui_stop
    \/ unlock_files_step
    \/ map_step
    \/ report_step
    \/ unreport_step
    \/ sync_block_step
    \/ move_docs_step
    \/ reset_step
    \/ ui_start
    \/ sync_unblock_step
    \/ run_return

SpecRun == InitRun /\ [][NextRun]_vars

\* ------------------------------------------------- systemd.rs: the timer
\* An argument HH:MM is taken as the two numbers it spells.
\* Time::try_parse: split at ':', parse both parts, Time::from_hms(h, m, 0),
\* which is Err for an hour or a minute out of range
try_parse(a) ==
    IF a[1] < HoursPerDay /\ a[2] < MinutesPerHour
    THEN [ok |-> TRUE, time |-> Time(a[1], a[2], 0)]
    ELSE [ok |-> FALSE, time |-> Time(0, 0, 0)]

\* format!("*-*-* {}:{}:10", t.hour(), t.minute() + 1): the hour, the minute
\* and the second of the calendar event
on_calendar(t) == [hour |-> t.hour, minute |-> t.minute + 1, second |-> 10]

\* timer_str: the two OnCalendar lines of the unit, or the Err of try_parse
timer_str(a) ==
    IF try_parse(a.start).ok /\ try_parse(a.end).ok
    THEN [ok |-> TRUE, entries |-> <<on_calendar(try_parse(a.start).time), on_calendar(try_parse(a.end).time)>>]
    ELSE [ok |-> FALSE, entries |-> <<>>]

\* the --end arguments followed: the corners and the middle of the day, and
\* an hour and a minute that do not exist
EndHours == {0, HoursPerDay \div 2, HoursPerDay - 1, HoursPerDay}
EndMinutes == {0, MinutesPerHour \div 2, MinutesPerHour - 1, MinutesPerHour}

InitTimer ==
    /\ SyncStill
    /\ TreeIdle
    /\ UtilIdle
    /\ pc = "install"
    /\ ui = "active"
    /\ safe = {}
    /\ to_lock = {}
    /\ sync_ret = "none"
    /\ stopped = FALSE
    /\ hid = {}
    /\ at_unblock = NotCalled
    /\ timer = NoTimer
    /\ \E h1 \in 0..HoursPerDay, m1 \in 0..MinutesPerHour, h2 \in EndHours, m2 \in EndMinutes :
          args = [start |-> <<h1, m1>>, end |-> <<h2, m2>>]

\* install: write_service()?, write_timer(&args)?, enable()?; run(args),
\* which comes next, is followed in SpecTime and SpecRun
install_units ==
    /\ pc = "install"
    /\ \/ /\ timer_str(args).ok
          /\ timer' = timer_str(args).entries
          /\ pc' = "installed"
          /\ UNCHANGED result
       \/ /\ ~timer_str(args).ok
          /\ UNCHANGED timer
          /\ returned_err
    /\ UNCHANGED <<op, svars, tvars, uvars>>
    /\ UNCHANGED <<ui, safe, to_lock, sync_ret, stopped, hid, at_unblock, args>>

NextTimer ==
    \/ install_units

SpecTimer == InitTimer /\ [][NextTimer]_vars

\* ================================================================ claims

Returned(o, r) == pc = "done" /\ op = o /\ result = r

\* C1: when block() returns success, every address of the list sync_routes
\* returned has a reject route in the routing table.
C1_BlockedAll == Returned("block", "Ok") => Range(targets) \subseteq rtable

C1_Witness == Returned("block", "Ok") /\ Len(targets) >= 2 /\ Range(targets) \subseteq rtable

\* C2: when unblock() returns success, no address of the persisted cache has
\* a reject route in the routing table.
C2_UnblockedAll ==
    Returned("unblock", "Ok") =>
        /\ load(file).ok
        /\ \A i \in DOMAIN load(file).entries : load(file).entries[i].ip \notin rtable

C2_Witness == Returned("unblock", "Ok") /\ Len(load(file).entries) >= 2 /\ rtable # {}

\* the route program itself failed (it did not start, or exited non-zero
\* for another reason than the route being there or not), or table() did
ToolBroke == last.out \in {"start", "other"} \/ last.ret = "Verifying"

\* C3: when the route program changes nothing on fewer than 5 attempts in a
\* row for an address and then takes effect, and nothing else goes wrong,
\* block() / unblock() has retried and returns success.
C3_RetriesThenSucceeds ==
    (pc = "done" /\ took \in 1..4 /\ result # "Interrupted" /\ ~ToolBroke) => result = "Ok"

\* C4: when the route program changes nothing on 5 attempts in a row for an
\* address, block() / unblock() ends with the Timeout error at the 5th: there
\* is no 6th invocation.
C4_TimeoutAtFive == streak >= 5 => (streak = 5 /\ pc = "done" /\ result = "Timeout")

\* C5: after a block() run was interrupted with only some targets installed,
\* a block() run that returns success has all its targets installed, an
\* unblock() run that returns success leaves none of the cached addresses
\* installed, and the route program is invoked only for addresses that the
\* table read at the start of the run did not show in the wanted state.
C5_SelfHeals ==
    partial =>
        /\ Returned("block", "Ok") => Range(targets) \subseteq rtable
        /\ Returned("unblock", "Ok") => Range(targets) \cap rtable = {}
        /\ last.f = "block" => last.a \notin routes
        /\ last.f = "unblock" => last.a \in routes

C5_Witness == partial /\ Returned("block", "Ok") /\ Len(targets) >= 2

\* C6: route::block called twice for an address that was not in the table
\* leaves the address in the table (the table holds a destination once), and
\* route::unblock for an address that is not in the table succeeds and
\* leaves the table as it was.
C6_RouteCallsIdempotent ==
    /\ (last.f = "block" /\ calls >= 2 /\ took >= 0) => last.a \in rtable
    /\ (last.f = "unblock" /\ ~last.had /\ ~ToolBroke) =>
            (last.a \notin rtable /\ last.ret = "Ok")

\* C7: a failure of a route invocation other than NoEffect ends the run with
\* an error at once: it is the last invocation of the run.
C7_FailureEndsRun ==
    last.ret \in {"Start", "Run", "Exists", "NotFound", "Verifying"} =>
        (pc = "done" /\ result = "RouteError")

C7_Witness == pc = "done" /\ last.ret = "Run" /\ calls >= 2 /\ result = "RouteError"

\* C8: a run of unblock() never is at the resolve loop or the merge of
\* sync_routes, and its targets are the addresses of the entries in the
\* file, in their order; it returns success also with the resolver out of
\* reach.
C8_UnblockOffline ==
    op = "unblock" =>
        /\ pc \notin {"resolve", "merge"}
        /\ resolved = <<>> /\ updated = None
        /\ result # "CacheEmpty"
        /\ pc \in {"table", "for", "loop"} =>
              /\ load(file).ok
              /\ targets = [i \in DOMAIN load(file).entries |-> load(file).entries[i].ip]

C8_Witness == Returned("unblock", "Ok") /\ net = "down" /\ Len(targets) >= 2

\* C9: after Routes::cache has written a list, whatever the file held
\* before, Cached::load returns exactly that list.
C9_PersistRoundTrip ==
    (op = "block" /\ pc = "table") => load(file) = [ok |-> TRUE, entries |-> updated.routes]

\* the time stamps ip has among the old entries and the new addresses
StampsOf(ip) ==
    {cache[i].last_updated : i \in {j \in DOMAIN cache : cache[j].ip = ip}}
        \cup (IF ip \in Range(resolved) THEN {now} ELSE {})

MergedIps == {cache[i].ip : i \in DOMAIN cache} \cup Range(resolved)

Newest(ip) == CHOOSE t \in StampsOf(ip) : \A u \in StampsOf(ip) : u <= t

EntriesOf(ip) == {i \in DOMAIN updated.routes : updated.routes[i].ip = ip}

\* C10 as claimed: after update(new) the cache holds exactly one entry for
\* each ip of the old entries or of new, with the latest time stamp the ip had.
C10_OneEntryPerMergedIp ==
    pc = "cache_out" =>
        /\ \A ip \in MergedIps :
              /\ Cardinality(EntriesOf(ip)) = 1
              /\ \A i \in EntriesOf(ip) : updated.routes[i].last_updated = Newest(ip)
        /\ \A i \in DOMAIN updated.routes : updated.routes[i].ip \in MergedIps

AgeOf(t) == IF now >= t THEN now - t ELSE 0

\* C10 as amended: after update(new) the cache holds at most one entry per
\* ip, each for an ip of the old entries or of new and with the latest time
\* stamp the ip had; an ip of them has no entry exactly when that time stamp
\* is older than EXPIRATION and at least 2 of the merged ips have a latest
\* time stamp younger than EXPIRATION (the ip was purged as expired).
C10_OneEntryPerKeptIp ==
    pc = "cache_out" =>
        /\ \A i \in DOMAIN updated.routes : updated.routes[i].ip \in MergedIps
        /\ \A ip \in MergedIps :
              /\ Cardinality(EntriesOf(ip)) <= 1
              /\ \A i \in EntriesOf(ip) : updated.routes[i].last_updated = Newest(ip)
              /\ EntriesOf(ip) = {} <=>
                    /\ now >= Newest(ip) /\ now - Newest(ip) > EXPIRATION
                    /\ Cardinality({q \in MergedIps : AgeOf(Newest(q)) < EXPIRATION}) >= 2

C10_Witness ==
    /\ pc = "cache_out"
    /\ \E i \in DOMAIN cache :
          /\ cache[i].ip \in Range(resolved)
          /\ cache[i].last_updated < now
          /\ \E j \in DOMAIN updated.routes :
                updated.routes[j] = Entry(cache[i].ip, now)
    /\ \E ip \in MergedIps : EntriesOf(ip) = {}

\* the merged ips whose latest time stamp is younger than EXPIRATION
FreshIps == {q \in MergedIps : AgeOf(Newest(q)) < EXPIRATION}

\* C11: when at least 2 entries are non-expired (age < EXPIRATION) after the
\* merge, update() removes every expired entry and no non-expired one, and
\* the result keeps at least 2 non-expired entries.
C11_PurgeByFloor ==
    (pc = "cache_out" /\ Cardinality(FreshIps) >= 2) =>
        /\ \A ip \in MergedIps : (EntriesOf(ip) # {}) <=> (ip \in FreshIps)
        /\ Cardinality({i \in DOMAIN updated.routes :
                           AgeOf(updated.routes[i].last_updated) < EXPIRATION}) >= 2

\* C11 as the code has it: with at least 2 entries younger than EXPIRATION
\* after the merge, exactly the entries older than EXPIRATION are removed; an
\* entry of exactly that age, or stamped in the future, is kept.
C11_PurgeOlderThanExpiration ==
    (pc = "cache_out" /\ Cardinality(FreshIps) >= 2) =>
        /\ \A ip \in MergedIps :
              (EntriesOf(ip) = {}) <=> (now >= Newest(ip) /\ now - Newest(ip) > EXPIRATION)
        /\ Cardinality({i \in DOMAIN updated.routes :
                           AgeOf(updated.routes[i].last_updated) < EXPIRATION}) >= 2

C11_Witness ==
    /\ pc = "cache_out"
    /\ Cardinality(FreshIps) >= 2
    /\ \E ip \in MergedIps : EntriesOf(ip) = {}

\* C12: when fewer than 2 entries are non-expired after the merge, update()
\* removes nothing but duplicates: every merged ip, expired or not, has its
\* entry with its latest time stamp.
C12_KeepBelowFloor ==
    (pc = "cache_out" /\ Cardinality(FreshIps) < 2) =>
        /\ Len(updated.routes) = Cardinality(MergedIps)
        /\ \A ip \in MergedIps :
              \E i \in DOMAIN updated.routes : updated.routes[i] = Entry(ip, Newest(ip))

C12_Witness ==
    /\ pc = "cache_out"
    /\ Cardinality(FreshIps) = 1
    /\ \E i \in DOMAIN updated.routes :
          now >= updated.routes[i].last_updated
          /\ now - updated.routes[i].last_updated > EXPIRATION

\* C13: a block cycle in which the resolution gave nothing and that began
\* with a non-empty persisted cache leaves a persisted cache that is not
\* empty: routes.json still loads, with at least one entry.  Whatever time
\* passed since the cycle before is in now.
C13_CacheSurvivesOffline ==
    (op = "block" /\ pc = "table" /\ resolved = <<>> /\ cache # <<>>) =>
        (load(file).ok /\ load(file).entries # <<>>)

\* the state directly behind a turn of the resolve loop
AfterRound == round # NoRound /\ pc \in {"resolve", "merge"}

FailedHosts == {h \in DOMAIN round.out : round.out[h].k # "ok"}

AnyConnectivityFailure == \E h \in DOMAIN round.out : round.out[h].k = "noconn"

\* C14: sync_routes retries only when at least one lookup failed and every
\* failed lookup is a connectivity failure; otherwise it proceeds at once
\* with the addresses resolved in that round.
C14_RetryOnlyAllConnectivity ==
    AfterRound =>
        LET allconn == FailedHosts # {} /\ \A h \in FailedHosts : round.out[h].k = "noconn"
        IN /\ (pc = "resolve") => allconn
           /\ ~allconn => (pc = "merge" /\ resolved = round.res)

\* C14 as the code has it: sync_routes retries exactly when some lookup
\* failed with a connectivity failure, whatever the other lookups gave, and
\* the budget is not used up; without a connectivity failure it proceeds at
\* once with the addresses resolved in that round.
C14_RetryOnAnyConnectivity ==
    AfterRound =>
        /\ (pc = "resolve") <=> (AnyConnectivityFailure /\ round.e <= TIMEOUT)
        /\ ~AnyConnectivityFailure => (pc = "merge" /\ resolved = round.res)

C14_Witness ==
    /\ AfterRound
    /\ pc = "resolve"
    /\ \E h \in DOMAIN round.out : round.out[h].k = "other"

\* C15: when the 30 s budget is used up, sync_routes stops retrying and
\* merges into the cache the addresses the last round resolved.
C15_TimeoutMergesLastRound ==
    (op = "block" /\ round # NoRound /\ round.e > TIMEOUT) =>
        /\ pc # "resolve"
        /\ (pc = "merge") => resolved = round.res
        /\ (pc = "table") =>
              \A a \in Range(round.res) : \E i \in DOMAIN updated.routes : updated.routes[i].ip = a

\* C15 as the code has it: when a round with a connectivity failure ends
\* behind the budget, sync_routes stops retrying and merges nothing: what the
\* last round resolved is dropped and the result has entries of the loaded
\* cache only.
C15_TimeoutMergesNothing ==
    (op = "block" /\ round # NoRound /\ round.e > TIMEOUT /\ AnyConnectivityFailure) =>
        /\ pc # "resolve"
        /\ (pc \in {"merge", "table"}) => resolved = <<>>
        /\ (pc = "table") => Range(updated.routes) \subseteq Range(cache)

C15_Witness ==
    /\ op = "block"
    /\ pc = "table"
    /\ round.e > TIMEOUT
    /\ AnyConnectivityFailure
    /\ \E a \in Range(round.res) : \A i \in DOMAIN updated.routes : updated.routes[i].ip # a

\* C16: sync_routes fails only when the merged result is empty; with a
\* non-empty loaded cache or a non-empty resolved list it returns a non-empty
\* address list without duplicates, and routes.json holds that list.
C16_FailsOnlyWhenEmpty ==
    /\ (op = "block" /\ pc = "done") =>
          /\ result # "LoadError"
          /\ (result = "CacheEmpty") => (cache = <<>> /\ resolved = <<>>)
    /\ (op = "block" /\ pc = "table") =>
          /\ targets # <<>>
          /\ Len(targets) = Cardinality(Range(targets))
          /\ load(file).ok
          /\ blocked_ips(load(file).entries) = targets

\* C17: the resolved addresses are the union, without duplicates, of the
\* addresses of every hostname whose lookup succeeded, whatever the other
\* lookups gave; every failed lookup is in the failure list.
C17_ResolvedIsUnion ==
    round # NoRound =>
        /\ Range(round.res) =
              UNION {round.out[h].ips : h \in DOMAIN round.out \ FailedHosts}
        /\ Len(round.res) = Cardinality(Range(round.res))
        /\ Len(round.err) = Cardinality(FailedHosts)
        /\ \A h \in FailedHosts : \E i \in DOMAIN round.err : round.err[i] = round.out[h]

C17_Witness ==
    /\ AfterRound
    /\ FailedHosts # {}
    /\ round.res # <<>>
    /\ round.out[1].k # "ok"

\* map has returned
Built == pc \in {"map", "found"} /\ todo = {}

Folders == {u \in DOMAIN recs : recs[u].kind = "folder"}

Documents == {u \in DOMAIN recs : recs[u].kind = "doc"}

FileIds(n) == {tree.files[n][i].uuid : i \in DOMAIN tree.files[n]}

\* C18: whatever the order in which the records arrived, the tree is the one
\* the set of records fixes: a node per root, folder and named parent, each
\* folder the child of its parent's node and of no other, and in the file
\* list of each node the documents that name it as parent.
C18_OrderIndependent ==
    Built =>
        /\ \A u \in Uuids :
              (tree.node[u] # 0) <=>
                  (u \in {Trash, MainRoot} \cup Folders \cup {recs[v].parent : v \in DOMAIN recs})
        /\ Len(tree.arena) = Cardinality({u \in Uuids : tree.node[u] # 0})
        /\ \A u \in Uuids : tree.node[u] # 0 =>
              LET n == tree.node[u]
                  kids == {tree.node[f] : f \in {g \in Folders : recs[g].parent = u}}
                  docs == {d \in Documents : recs[d].parent = u}
              IN /\ tree.arena[n].parent = (IF u \in Folders THEN tree.node[recs[u].parent] ELSE 0)
                 /\ Range(tree.arena[n].children) = kids
                 /\ Len(tree.arena[n].children) = Cardinality(kids)
                 /\ FileIds(n) = docs
                 /\ Len(tree.files[n]) = Cardinality(docs)

C18_Witness ==
    /\ Built
    /\ \E f \in Folders, g \in Folders :
          /\ recs[f].parent = g
          /\ tree.node[f] < tree.node[g]
          /\ tree.files[tree.node[f]] # <<>>

\* the node and the nodes above it, by the parent fields of the arena
RECURSIVE SelfAndAncestors(_)
SelfAndAncestors(n) ==
    IF n = 0 THEN {} ELSE {n} \cup SelfAndAncestors(tree.arena[n].parent)

Subtree(n) == {m \in DOMAIN tree.arena : n \in SelfAndAncestors(m)}

\* C19: descendant_files(node) returns exactly the documents in the file
\* lists of the node and of the nodes below it, each once.
C19_DescendantFiles ==
    (pc = "found") =>
        /\ Range(found) = UNION {FileIds(m) : m \in Subtree(subroot)}
        /\ Len(found) = Cardinality(Range(found))

C19_Witness ==
    /\ pc = "found"
    /\ \E m \in Subtree(subroot) \ {subroot} : FileIds(m) # {}
    /\ Documents \ Range(found) # {}

\* C20: descendant_files of the main root returns every document of the
\* input, without duplicates.
C20_RootHasAllDocuments ==
    (pc = "found" /\ subroot = tree.node[MainRoot]) =>
        /\ Range(found) = Documents
        /\ Len(found) = Cardinality(Range(found))

\* C20 as the code has it: descendant_files of the main root returns, without
\* duplicates, the documents whose parent is the main root or a folder whose
\* chain of parent folders ends in the main root; a document in the trash or
\* under a uuid that is no folder is not among them.
C20_RootHasReachableDocuments ==
    (pc = "found" /\ subroot = tree.node[MainRoot]) =>
        /\ Range(found) = {d \in Documents : MainRoot \in ParentChain(recs, d, NRecs)}
        /\ Len(found) = Cardinality(Range(found))

C20_Witness ==
    /\ pc = "found"
    /\ subroot = tree.node[MainRoot]
    /\ found # <<>>
    /\ \E d \in Documents \ Range(found) : recs[d].parent = Trash

\* C21: node_for starts at the main root and, for each segment of the path,
\* moves to the first child in child order whose name is the segment; it
\* returns Err carrying the path when some segment has no such child, and the
\* main root for the empty path.
SlashAt(path) == {i \in DOMAIN path : path[i] = Slash}

Cut(path, j) ==
    IF j = 0 THEN 0
    ELSE IF j > Cardinality(SlashAt(path)) THEN Len(path) + 1
    ELSE CHOOSE i \in SlashAt(path) : Cardinality({k \in SlashAt(path) : k < i}) = j - 1

Segment(path, j) == SubSeq(path, Cut(path, j - 1) + 1, Cut(path, j) - 1)

NSegments(path) == IF path = <<>> THEN 0 ELSE Cardinality(SlashAt(path)) + 1

Position(n) ==
    LET cs == tree.arena[tree.arena[n].parent].children
    IN CHOOSE i \in DOMAIN cs : cs[i] = n

FirstNamed(p, seg) ==
    {c \in DOMAIN tree.arena :
        /\ tree.arena[c].parent = p
        /\ NameStr(tree.name[c]) = seg
        /\ \A d \in DOMAIN tree.arena :
              tree.arena[d].parent = p /\ NameStr(tree.name[d]) = seg
              => Position(c) <= Position(d)}

RECURSIVE Walked(_, _)
Walked(path, j) ==
    IF j = 0 THEN {tree.node[MainRoot]}
    ELSE UNION {FirstNamed(p, Segment(path, j)) : p \in Walked(path, j - 1)}

C21_NodeFor ==
    pc = "asked" =>
        LET at == Walked(asked, NSegments(asked))
        IN /\ asked = <<>> => answer = Ok(tree.node[MainRoot])
           /\ at # {} => answer.k = "Ok" /\ at = {answer.node}
           /\ at = {} => answer = Err(asked)

C21_Witness ==
    /\ pc = "asked"
    /\ answer.k = "Ok"
    /\ NSegments(asked) = 2
    /\ \E c, d \in DOMAIN tree.arena :
          /\ c # d
          /\ tree.arena[c].parent = tree.node[MainRoot]
          /\ tree.arena[d].parent = tree.node[MainRoot]
          /\ tree.name[c] = tree.name[d]
          /\ tree.arena[answer.node].parent = c

\* C22: without_overlapping removes nested requests: no path of the result is
\* a prefix of another path of the result, every path of the result is a path
\* of the input, and every path of the input has a path of the result as a
\* prefix.
C22_PrefixFreeCover ==
    pc = "kept" =>
        /\ \A i, j \in DOMAIN kept : i # j => ~starts_with(kept[j], kept[i])
        /\ Range(kept) \subseteq Range(args_lock)
        /\ \A p \in Range(args_lock) : \E q \in Range(kept) : starts_with(p, q)

C22_Witness ==
    /\ pc = "kept"
    /\ Len(kept) >= 2
    /\ \E p \in Range(args_lock) : \E q \in Range(kept) : p # q /\ starts_with(p, q)

FirstAt(list, p) == CHOOSE i \in DOMAIN list : list[i] = p /\ \A j \in 1..(i - 1) : list[j] # p

C24_EqualLengthsInInputOrder ==
    pc = "kept" =>
        \A i, j \in DOMAIN kept :
            i < j =>
                /\ Len(kept[i]) <= Len(kept[j])
                /\ Len(kept[i]) = Len(kept[j])
                   => FirstAt(args_lock, kept[i]) < FirstAt(args_lock, kept[j])

\* C25: when several requested paths do not resolve in the tree, the error
\* names all of them, after every requested path has been tried.
Missing(t, paths) == {p \in Range(paths) : node_for(t, p).k # "Ok"}

C25_AllMissingReported == pc = "locked" => Range(report) = Missing(tree, forbidden)

\* C26: should_lock(now, start, end) is true exactly when now lies in the
\* closed window from start to end; a window with start > end wraps past
\* midnight, a window with start <= end does not.
SecondOfDay(t) == (t.hour * 60 + t.minute) * 60 + t.second

C26_ShouldLockWindow ==
    pc = "timed" =>
        LET t == SecondOfDay(clock.now)
            s == SecondOfDay(clock.start)
            e == SecondOfDay(clock.end)
        IN locking <=> IF s > e THEN t >= s \/ t <= e ELSE s <= t /\ t <= e

C26_Witness ==
    /\ pc = "timed"
    /\ locking
    /\ SecondOfDay(clock.start) > SecondOfDay(clock.end)
    /\ SecondOfDay(clock.now) < SecondOfDay(clock.end)
    /\ clock.now.second > 0

\* C27: route::unblock returns Ok only if the address is absent from the
\* routing table as read again after the delete command; if the command
\* exits with success but the address is still in the table that was read,
\* the result is NoEffect.
C27_UnblockVerified ==
    last.f = "unblock" =>
        /\ last.ret = "Ok" => last.a \notin route_table(rtable)
        /\ last.out \in {"effect", "noeffect"} /\ last.ret # "Verifying"
           /\ last.a \in route_table(rtable)
           => last.ret = "NoEffect"

C27_Witness ==
    /\ last.f = "unblock"
    /\ last.out = "noeffect"
    /\ last.a \in route_table(rtable)
    /\ last.ret = "NoEffect"

Roots == {tree.node[Trash], tree.node[MainRoot]}

MapDone == pc = "map" /\ todo = {}

\* the nodes that list n as a child, once for each time they list it
ListedBy(n) ==
    {<<p, i>> \in (DOMAIN tree.arena) \X (1..Len(tree.arena)) :
        i \in DOMAIN tree.arena[p].children /\ tree.arena[p].children[i] = n}

OneParent(n) ==
    /\ tree.arena[n].parent # 0
    /\ \E i \in 1..Len(tree.arena) : ListedBy(n) = {<<tree.arena[n].parent, i>>}

NoParent(n) == tree.arena[n].parent = 0 /\ ListedBy(n) = {}

ParentKept ==
    \A n \in DOMAIN tree.arena :
        tree.arena[n].parent # 0 => tree'.arena[n].parent = tree.arena[n].parent

C29_OneParentNeverChanged ==
    /\ [](MapDone => \A n \in DOMAIN tree.arena \ Roots : OneParent(n))
    /\ [][ParentKept]_vars

FolderNodes == {tree.node[u] : u \in {v \in RecUuids : recs[v].kind = "folder"}}

\* C29 as amended: the nodes of the folder records have exactly one parent,
\* the nodes made for an id that only parent fields name have none, and the
\* parent of a node never changes once it has been set.
C29_FolderNodesOneParent ==
    /\ [](MapDone => \A n \in DOMAIN tree.arena \ Roots :
                        IF n \in FolderNodes THEN OneParent(n) ELSE NoParent(n))
    /\ [][ParentKept]_vars

C29_Witness ==
    /\ MapDone
    /\ \E n \in FolderNodes : OneParent(n) /\ tree.arena[n].parent \notin Roots \cup FolderNodes
    /\ \E n \in DOMAIN tree.arena \ (Roots \cup FolderNodes) : NoParent(n)

Parses(u) == recs[u].parent # NoField /\ recs[u].name # NoField /\ recs[u].kind # "missing"

InTree(u) ==
    IF recs[u].kind = "folder"
    THEN tree.node[u] # 0 /\ tree.name[tree.node[u]] = recs[u].name
    ELSE /\ tree.node[recs[u].parent] # 0
         /\ \E i \in DOMAIN tree.files[tree.node[recs[u].parent]] :
               tree.files[tree.node[recs[u].parent]][i] = File(u, recs[u].name)

MapEnded == pc = "panic" \/ (pc = "map" /\ todo = {})

C31_BuildGoesOn ==
    MapEnded => pc # "panic" /\ \A u \in RecUuids : Parses(u) => InTree(u)

\* C32: after any sequence of runs of block() and unblock(), with any time
\* between them, every address that has a reject route block() installed is
\* listed in routes.json, so that a later unblock() removes it.
Persisted == Range(blocked_ips(load(file).entries))

C32_InstalledStayCached == Idle => rtable \subseteq Persisted

\* C33: block() and unblock() always terminate: the routing tool is invoked
\* at most 5 times for an address, and the loop for an address is left as
\* soon as one invocation succeeds. (calls counts the invocations of the run;
\* they are all for the address at idx, as the run never gets past the first
\* address it invokes route for.)
C33_AtMostFiveCallsLeftOnSuccess ==
    /\ calls <= 5
    /\ last.ret = "Ok" => pc # "loop"

C35_HiddenOnlyWhileBlocked ==
    /\ hid # {} => op = "lock" /\ sync_ret = "Ok"
    /\ sync_ret = "Err" => hid = {} /\ pc = "done" /\ result = "Err"
    /\ at_unblock.called => op = "unlock" /\ at_unblock.hidden = {} /\ safe = {}

C35_Witness == pc = "done" /\ op = "lock" /\ result = "Ok" /\ hid # {} /\ hid = safe

\* C36: a run of lock or unlock that has stopped the ui has started it again
\* when it returns, whatever the calls in between returned.
C36_UiStartedAgain == pc = "done" /\ stopped => ui = "active"

\* the calendar event one minute after the time t, at second 10
OneMinuteAfter(t) ==
    LET total == (t.hour * MinutesPerHour + t.minute + 1) % (HoursPerDay * MinutesPerHour)
    IN  [hour |-> total \div MinutesPerHour, minute |-> total % MinutesPerHour, second |-> 10]

\* C37: for valid --start and --end the timer unit install writes has
\* OnCalendar entries with an hour in 0..23 and a minute in 0..59, one minute
\* after the time given.
C37_TimerOneMinuteLater ==
    pc = "installed" =>
        /\ \A i \in 1..2 : timer[i].hour \in 0..(HoursPerDay - 1) /\ timer[i].minute \in 0..(MinutesPerHour - 1)
        /\ timer[1] = OneMinuteAfter(try_parse(args.start).time)
        /\ timer[2] = OneMinuteAfter(try_parse(args.end).time)

====
